---- MODULE Spec2Model ----
(***************************************************************************)
(* New manager bounce, Premier League 2015/16 (New_manager_bounce_PL.py).  *)
(*                                                                         *)
(* A match table (pandas DataFrame) is a sequence of rows; a row is a      *)
(* record with the provider's columns match_date, home_team, away_team,    *)
(* home_score, away_score and the two derived columns is_manager_bounce    *)
(* and points_from_match, which hold Missing until the column is added.    *)
(* Dates are days of an abstract calendar 1..MaxDate; hire dates range     *)
(* over 0..MaxDate+1 so that a hire can precede or follow every match.     *)
(* A team plays at most one match a day, so the dates of one team's        *)
(* matches are pairwise distinct.                                          *)
(***************************************************************************)
EXTENDS Integers, Sequences, FiniteSets, TLC

VARIABLES
    pc,                     \* control position of the running call
    report,                 \* the report running: 0 aggregate, i the one of team i
    args,                   \* arguments of the running pipeline call
    team,                   \* index in TEAMS of the team being processed
    all_matches,            \* season table returned by SB_load_matches_from_season
    df,                     \* team_matches / match_df of the running pipeline call
    matches,                \* the tables the report holds, one per team done
    all_bounce_matches,     \* points pooled from matches labeled 1
    all_no_bounce_matches,  \* points pooled from matches labeled 0
    ppg_bounce,             \* np.mean of the bounce sample
    ppg_no_bounce,          \* np.mean of the non-bounce sample
    p_value,                \* p-value of ttest_ind
    console,                \* verdict lines printed so far
    hypothesis_title,       \* verdict carried by the chart's suptitle
    color_list,             \* colors given to the two bars
    chart,                  \* what plt.show() displayed
    failure                 \* the uncaught exception that ended the run

vars == <<pc, report, args, team, all_matches, df, matches, all_bounce_matches,
          all_no_bounce_matches, ppg_bounce, ppg_no_bounce, p_value, console,
          hypothesis_title, color_list, chart, failure>>

----------------------------------------------------------------------------
(* Bounds of the model *)

\* days of the abstract calendar
MaxDate == 5
\* largest number_of_matches_in_bounce tried (window sizes are 1..MaxBounce)
MaxBounce == 3
\* number_hired_managers ranges over 1..MaxHires
MaxHires == 3
\* scores range over 0..MaxScore
MaxScore == 1
\* longest season table handed to the extractor
MaxSeasonMatches == 2
\* longest table the provider answers a report's call with
MaxReportMatches == 3
\* teams pooled by the aggregate report: the first NumTeams of TEAMS
NumTeams == 2

----------------------------------------------------------------------------
(* Values *)

\* a derived column that has not been added to the table
Missing == 0 - 1

Dates == 1..MaxDate
HireDates == 0..(MaxDate + 1)

Row(d, h, a, hs, as) ==
    [match_date |-> d, home_team |-> h, away_team |-> a, home_score |-> hs,
     away_score |-> as, is_manager_bounce |-> Missing, points_from_match |-> Missing]

\* the column df["match_date"]
MatchDates(t) == [i \in 1..Len(t) |-> t[i].match_date]

\* the days of a set in chronological order
RECURSIVE InOrder(_)
InOrder(S) ==
    IF S = {} THEN <<>>
    ELSE LET last == CHOOSE d \in S : \A e \in S : e <= d
         IN  Append(InOrder(S \ {last}), last)

----------------------------------------------------------------------------
(* add_managerial_change_column *)

\* Series.iloc[i]: positional access, negative positions count from the end
IlocInRange(s, i) == (0 - Len(s)) <= i /\ i < Len(s)
Iloc(s, i) == IF i >= 0 THEN s[i + 1] ELSE s[Len(s) + i + 1]

\* df["match_date"][df["match_date"] > first_manager_hire_date]
DatesAfter(dates, hire) == SelectSeq(dates, LAMBDA d : d > hire)
\* df["match_date"][df["match_date"] >= hire_date]
DatesStrictlyAfter(dates, hire) == SelectSeq(dates, LAMBDA d : d > hire)
DatesOnOrAfter(dates, hire) == SelectSeq(dates, LAMBDA d : d >= hire)

\* np.select([not_bounce_condition, is_bounce_condition], [0, 1]): the first
\* condition that holds decides, and the default is 0
np_select(not_bounce, is_bounce) ==
    IF not_bounce THEN 0 ELSE IF is_bounce THEN 1 ELSE 0

\* number_hired_managers == 1
not_bounce_condition_1(d, first, last) == d < first \/ d > last
is_bounce_condition_1(d, first, last) == d >= first /\ d <= last

\* number_hired_managers == 2
not_bounce_condition_2(d, first, second, last1, last2) ==
    \/ d < first
    \/ (d > last1 /\ d < second)
    \/ d > last2
is_bounce_condition_2_first_only(d, first, second, last1, last2) ==
    d >= first /\ d <= last1
is_bounce_condition_2(d, first, second, last1, last2) ==
    \/ (d >= first /\ d <= last1)
    \/ (d >= second /\ d <= last2)

WithLabel(t, labels) ==
    [i \in 1..Len(t) |-> [t[i] EXCEPT !.is_manager_bounce = labels[t[i].match_date]]]

\* The call's outcome: raised names the exception, or is "none" and df is the
\* table returned.
add_managerial_change_column_truncating(t, first, second, hires, n) ==
    LET dates == MatchDates(t)
        Last(s) == IF Len(s) = 0 THEN 0 ELSE IF n <= Len(s) THEN s[n] ELSE s[Len(s)]
    IN  IF hires = 1 THEN
            LET last == Last(DatesAfter(dates, first))
                label == [d \in Dates |-> np_select(not_bounce_condition_1(d, first, last),
                                      is_bounce_condition_1(d, first, last))]
            IN  [raised |-> "none", df |-> WithLabel(t, label)]
        ELSE IF hires = 2 THEN
            LET last1 == Last(DatesOnOrAfter(dates, first))
                last2 == Last(DatesOnOrAfter(dates, second))
                label == [d \in Dates |-> np_select(
                    not_bounce_condition_2(d, first, second, last1, last2),
                    is_bounce_condition_2(d, first, second, last1, last2))]
            IN  [raised |-> "none", df |-> WithLabel(t, label)]
        ELSE [raised |-> "none", df |-> t]

add_managerial_change_column(t, first, second, hires, n) ==
    LET dates == MatchDates(t)
    IN  IF hires = 1 THEN
            LET after == DatesAfter(dates, first)
            IN  IF ~IlocInRange(after, n - 1)
                THEN [raised |-> "IndexError", df |-> t]
                ELSE LET last == Iloc(after, n - 1)
                         label == [d \in Dates |-> np_select(not_bounce_condition_1(d, first, last),
                                               is_bounce_condition_1(d, first, last))]
                     IN  [raised |-> "none", df |-> WithLabel(t, label)]
        ELSE IF hires = 2 THEN
            LET after1 == DatesOnOrAfter(dates, first)
                after2 == DatesOnOrAfter(dates, second)
            IN  IF ~IlocInRange(after1, n - 1) \/ ~IlocInRange(after2, n - 1)
                THEN [raised |-> "IndexError", df |-> t]
                ELSE LET last1 == Iloc(after1, n - 1)
                         last2 == Iloc(after2, n - 1)
                         label == [d \in Dates |-> np_select(
                             not_bounce_condition_2(d, first, second, last1, last2),
                             is_bounce_condition_2(d, first, second, last1, last2))]
                     IN  [raised |-> "none", df |-> WithLabel(t, label)]
        ELSE [raised |-> "none", df |-> t]

----------------------------------------------------------------------------
(* SB_load_matches_from_season, extract_teams_matches_during_season *)

\* DataFrame.sort_values(by="match_date"): rows in non-decreasing date order,
\* rows of equal date in their previous order
InsertByDate(sorted, row) ==
    LET k == Cardinality({i \in 1..Len(sorted) : sorted[i].match_date <= row.match_date})
    IN  SubSeq(sorted, 1, k) \o <<row>> \o SubSeq(sorted, k + 1, Len(sorted))
RECURSIVE sort_values(_)
sort_values(t) ==
    IF t = <<>> THEN <<>>
    ELSE InsertByDate(sort_values(SubSeq(t, 1, Len(t) - 1)), t[Len(t)])

\* The provider's answer to one call is either no answer (sb.competitions or
\* sb.matches raises), a competitions table without the league and season
\* asked for, or the season's matches.
SB_load_matches_from_season(response) ==
    IF response.status = "unavailable"
    THEN [raised |-> "ProviderError", matches_df |-> <<>>]
    ELSE IF response.status = "unknown_season"
    THEN [raised |-> "IndexError(array)", matches_df |-> <<>>]
    ELSE [raised |-> "none", matches_df |-> sort_values(response.matches)]

\* the filter of line 52 without its away_team half
extract_home_matches_during_season(table, team_name) ==
    sort_values(SelectSeq(table, LAMBDA r : r.home_team = team_name))

extract_teams_matches_during_season(table, team_name) ==
    sort_values(SelectSeq(table,
        LAMBDA r : r.home_team = team_name \/ r.away_team = team_name))

----------------------------------------------------------------------------
(* add_points_from_match_column *)

PointsOfRowHomeOnly(row, team_name) ==
    IF row.home_score > row.away_score THEN 3
    ELSE IF row.home_score = row.away_score THEN 1
    ELSE 0
PointsOfRow(row, team_name) ==
    IF row.home_team = team_name THEN
        IF row.home_score > row.away_score THEN 3
        ELSE IF row.home_score = row.away_score THEN 1
        ELSE 0
    ELSE IF row.away_team = team_name THEN
        IF row.away_score > row.home_score THEN 3
        ELSE IF row.home_score = row.away_score THEN 1
        ELSE 0
    ELSE 0

add_points_from_match_column(t, team_name) ==
    [i \in 1..Len(t) |-> [t[i] EXCEPT !.points_from_match = PointsOfRow(t[i], team_name)]]

----------------------------------------------------------------------------
(* The two reports: plot_overall_points_per_game_diff and                  *)
(* plot_teams_points_per_game_diff                                         *)

\* A float is the fraction sum/n of two integers; 0/0 is not a number.
Float(a, b) == [sum |-> a, n |-> b]
NaN == Float(0, 0)
\* a float local that has not been assigned
NoFloat == Float(0, 0 - 1)
\* comparisons of floats: every comparison with NaN is false
Less(x, y) == x.n > 0 /\ y.n > 0 /\ x.sum * y.n < y.sum * x.n
Equal(x, y) == x.n > 0 /\ y.n > 0 /\ x.sum * y.n = y.sum * x.n

RECURSIVE Sum(_)
Sum(s) == IF s = <<>> THEN 0 ELSE s[1] + Sum(Tail(s))

\* np.mean of a list: NaN for the empty list
np_mean(s) == Float(Sum(s), Len(s))

\* the columns of a team's table that a report reads after the pipeline
ColumnsRead(t) ==
    [i \in 1..Len(t) |-> [is_manager_bounce |-> t[i].is_manager_bounce,
                          points_from_match |-> t[i].points_from_match]]

\* matches.loc[matches["is_manager_bounce"] == label, "points_from_match"].tolist()
PointsWithAnyLabel(t, label) == [i \in 1..Len(t) |-> t[i].points_from_match]
PointsWithLabel(t, label) ==
    LET rows == SelectSeq(t, LAMBDA r : r.is_manager_bounce = label)
    IN  [i \in 1..Len(rows) |-> rows[i].points_from_match]

\* significance level
alpha == Float(5, 100)

\* p-values the test is tried with, in thousandths
PThousandths == {0, 49, 50, 51, 499, 500, 501, 1000}

\* ttest_ind(a, b, alternative="greater"): the p-values it can return.  It is
\* NaN when a sample is empty or all observations are equal (0/0); with a
\* sample of one observation it is NaN or a number, by library version.
\* Otherwise it is below, at or above one half as mean(a) is above, at or
\* below mean(b).
ttest_ind(a, b) ==
    LET all == a \o b
        numbers == {Float(t, 1000) : t \in
                      {t \in PThousandths :
                         /\ Less(np_mean(b), np_mean(a)) => t < 500
                         /\ Equal(np_mean(a), np_mean(b)) => t = 500
                         /\ Less(np_mean(a), np_mean(b)) => t > 500}}
    IN  IF Len(a) = 0 \/ Len(b) = 0 \/ (\A i \in 1..Len(all) : all[i] = all[1])
        THEN {NaN}
        ELSE IF Len(a) = 1 \/ Len(b) = 1 THEN numbers \cup {NaN}
        ELSE numbers

\* the verdict printed: if p_value < alpha ... else ...
PrintedVerdict(p) == IF Less(p, alpha) THEN "greater" ELSE "no difference"

\* hypothesis_title of the aggregate report: if p_value < 0.05 ... elif
\* p_value >= 0.05 ..., and otherwise the name is never assigned
OverallTitle(p) ==
    IF Less(p, alpha) THEN "greater"
    ELSE IF Less(alpha, p) \/ Equal(p, alpha) THEN "no difference"
    ELSE "unset"

\* color_list: if ... elif ... elif ..., and otherwise the name is never assigned
ColorList(bounce, no_bounce) ==
    IF Less(no_bounce, bounce) THEN <<"green", "red">>
    ELSE IF Less(bounce, no_bounce) THEN <<"red", "green">>
    ELSE IF Equal(bounce, no_bounce) THEN <<"yellow", "yellow">>
    ELSE <<>>

\* The teams of the script, in the order of its calls, with the hire dates on
\* the abstract calendar (days 1, 2 and 3 stand for October, November and
\* December 2015, day 4 for January to March 2016; 0 is the default second
\* hire date, before every match).
\* the calls of lines 379-386 with the first two exchanged
TEAMS_LiverpoolFirst == <<
    [team_name |-> "Liverpool", first_manager_hire_date |-> 1,
     second_manager_hire_date |-> 0, number_hired_managers |-> 1],
    [team_name |-> "Sunderland", first_manager_hire_date |-> 1,
     second_manager_hire_date |-> 0, number_hired_managers |-> 1],
    [team_name |-> "Swansea City", first_manager_hire_date |-> 3,
     second_manager_hire_date |-> 4, number_hired_managers |-> 2],
    [team_name |-> "Aston Villa", first_manager_hire_date |-> 2,
     second_manager_hire_date |-> 4, number_hired_managers |-> 2],
    [team_name |-> "Chelsea", first_manager_hire_date |-> 3,
     second_manager_hire_date |-> 0, number_hired_managers |-> 1],
    [team_name |-> "Newcastle United", first_manager_hire_date |-> 4,
     second_manager_hire_date |-> 0, number_hired_managers |-> 1] >>

TEAMS == <<
    [team_name |-> "Sunderland", first_manager_hire_date |-> 1,
     second_manager_hire_date |-> 0, number_hired_managers |-> 1],
    [team_name |-> "Liverpool", first_manager_hire_date |-> 1,
     second_manager_hire_date |-> 0, number_hired_managers |-> 1],
    [team_name |-> "Swansea City", first_manager_hire_date |-> 3,
     second_manager_hire_date |-> 4, number_hired_managers |-> 2],
    [team_name |-> "Aston Villa", first_manager_hire_date |-> 2,
     second_manager_hire_date |-> 4, number_hired_managers |-> 2],
    [team_name |-> "Chelsea", first_manager_hire_date |-> 3,
     second_manager_hire_date |-> 0, number_hired_managers |-> 1],
    [team_name |-> "Newcastle United", first_manager_hire_date |-> 4,
     second_manager_hire_date |-> 0, number_hired_managers |-> 1] >>

\* arguments of add_manager_change_and_points_won_columns_to_df for team i
TeamArgs(i, n) ==
    [team_name |-> TEAMS[i].team_name,
     first_manager_hire_date |-> TEAMS[i].first_manager_hire_date,
     second_manager_hire_date |-> TEAMS[i].second_manager_hire_date,
     number_hired_managers |-> TEAMS[i].number_hired_managers,
     number_of_matches_in_bounce |-> n]

\* report 0 is the aggregate report, report i the individual report of team i
Overall == 0

----------------------------------------------------------------------------
(* What the provider can answer *)

\* the matches a team can play on a day: won or drawn at home, or lost away
Fixtures(team_name, d) ==
    {Row(d, team_name, "Opponent", 1, 0),
     Row(d, team_name, "Opponent", 0, 0),
     Row(d, "Opponent", team_name, 1, 0)}

\* tables of n matches of a team on pairwise distinct days, latest first
RECURSIVE TablesOfLength(_, _)
TablesOfLength(team_name, n) ==
    IF n = 0 THEN {<<>>}
    ELSE UNION {{Append(t, r) : r \in UNION {Fixtures(team_name, d) :
                        d \in {e \in Dates : \A i \in 1..Len(t) : e < t[i].match_date}}} :
                t \in TablesOfLength(team_name, n - 1)}

\* a table with its rows in the opposite order
Reversed(t) == [i \in 1..Len(t) |-> t[Len(t) + 1 - i]]

ProviderResponses(team_name) ==
    {[status |-> "unavailable", matches |-> <<>>],
     [status |-> "unknown_season", matches |-> <<>>]} \cup
    {[status |-> "ok", matches |-> t] :
        t \in UNION {TablesOfLength(team_name, n) \cup
                     {Reversed(u) : u \in TablesOfLength(team_name, n)} :
                     n \in 0..MaxReportMatches}}

----------------------------------------------------------------------------
(* Actions *)

ReportLocalsUnset ==
    /\ matches = <<>>
    /\ all_bounce_matches = <<>>
    /\ all_no_bounce_matches = <<>>
    /\ ppg_bounce = NoFloat
    /\ ppg_no_bounce = NoFloat
    /\ p_value = NoFloat
    /\ console = <<>>
    /\ hypothesis_title = "unset"
    /\ color_list = <<>>
    /\ chart = <<>>

NoLocals ==
    /\ all_matches = <<>>
    /\ df = <<>>
    /\ ReportLocalsUnset

\* all_matches = SB_load_matches_from_season(...), the first statement of
\* extract_teams_matches_during_season
Load ==
    /\ pc = "load"
    /\ \E response \in ProviderResponses(args.team_name) :
         LET r == SB_load_matches_from_season(response)
         IN  /\ all_matches' = r.matches_df
             /\ failure' = r.raised
             /\ pc' = IF r.raised = "none" THEN "extract" ELSE "error"
    /\ UNCHANGED <<report, matches, args, team, df, all_bounce_matches,
                   all_no_bounce_matches, ppg_bounce, ppg_no_bounce, p_value,
                   console, hypothesis_title, color_list, chart>>

\* the rest of extract_teams_matches_during_season
Extract ==
    /\ pc = "extract"
    /\ df' = extract_teams_matches_during_season(all_matches, args.team_name)
    /\ all_matches' = <<>>
    /\ pc' = "label"
    /\ UNCHANGED <<report, matches, args, team, all_bounce_matches,
                   all_no_bounce_matches, ppg_bounce, ppg_no_bounce, p_value,
                   console, hypothesis_title, color_list, chart, failure>>

LabelSwallowingTheError ==
    /\ pc = "label"
    /\ LET r == add_managerial_change_column(
                    df, args.first_manager_hire_date, args.second_manager_hire_date,
                    args.number_hired_managers, args.number_of_matches_in_bounce)
       IN  /\ df' = r.df
           /\ failure' = r.raised
           /\ pc' = "points"
    /\ UNCHANGED <<report, matches, args, team, all_matches, all_bounce_matches,
                   all_no_bounce_matches, ppg_bounce, ppg_no_bounce, p_value,
                   console, hypothesis_title, color_list, chart>>
\* match_df = add_managerial_change_column(df=match_df, ...)
Label ==
    /\ pc = "label"
    /\ LET r == add_managerial_change_column(
                    df, args.first_manager_hire_date, args.second_manager_hire_date,
                    args.number_hired_managers, args.number_of_matches_in_bounce)
       IN  /\ df' = r.df
           /\ failure' = r.raised
           /\ pc' = IF r.raised = "none" THEN "points" ELSE "error"
    /\ UNCHANGED <<report, matches, args, team, all_matches, all_bounce_matches,
                   all_no_bounce_matches, ppg_bounce, ppg_no_bounce, p_value,
                   console, hypothesis_title, color_list, chart>>

\* match_df = add_points_from_match_column(df=match_df, team_name=team_name)
Points ==
    /\ pc = "points"
    /\ df' = add_points_from_match_column(df, args.team_name)
    /\ pc' = "collect"
    /\ UNCHANGED <<report, matches, args, team, all_matches, all_bounce_matches,
                   all_no_bounce_matches, ppg_bounce, ppg_no_bounce, p_value,
                   console, hypothesis_title, color_list, chart, failure>>

\* The team's table is kept (sunderland_matches, ..., matches) and its points
\* by label are pooled in the order of the teams.  The column
\* is_manager_bounce exists only if number_hired_managers was 1 or 2.
Collect ==
    /\ pc = "collect"
    /\ IF args.number_hired_managers \notin {1, 2}
       THEN /\ pc' = "error"
            /\ failure' = "KeyError"
            /\ UNCHANGED <<args, team, df, matches, all_bounce_matches,
                           all_no_bounce_matches>>
       ELSE /\ matches' = Append(matches, ColumnsRead(df))
            /\ all_bounce_matches' = all_bounce_matches \o PointsWithLabel(df, 1)
            /\ all_no_bounce_matches' = all_no_bounce_matches \o PointsWithLabel(df, 0)
            /\ df' = <<>>
            /\ failure' = failure
            /\ IF report = Overall /\ team < NumTeams
               THEN /\ team' = team + 1
                    /\ args' = TeamArgs(team + 1, args.number_of_matches_in_bounce)
                    /\ pc' = "load"
               ELSE /\ pc' = "mean"
                    /\ UNCHANGED <<team, args>>
    /\ UNCHANGED <<report, all_matches, ppg_bounce, ppg_no_bounce, p_value,
                   console, hypothesis_title, color_list, chart>>

\* ppg_bounce = np.mean(...); ppg_no_bounce = np.mean(...)
Mean ==
    /\ pc = "mean"
    /\ ppg_bounce' = np_mean(all_bounce_matches)
    /\ ppg_no_bounce' = np_mean(all_no_bounce_matches)
    /\ pc' = "test"
    /\ UNCHANGED <<report, matches, args, team, all_matches, df, all_bounce_matches,
                   all_no_bounce_matches, p_value, console, hypothesis_title,
                   color_list, chart, failure>>

\* The test and the printed verdict; the individual report sets its title in
\* the same branches.
Test ==
    /\ pc = "test"
    /\ \E p \in ttest_ind(all_bounce_matches, all_no_bounce_matches) :
         /\ p_value' = p
         /\ console' = Append(console, PrintedVerdict(p))
         /\ hypothesis_title' =
                IF report = Overall THEN hypothesis_title ELSE PrintedVerdict(p)
    /\ pc' = "colors"
    /\ UNCHANGED <<report, matches, args, team, all_matches, df, all_bounce_matches,
                   all_no_bounce_matches, ppg_bounce, ppg_no_bounce, color_list,
                   chart, failure>>

\* color_list and ax.bar(..., color=color_list, ...)
Colors ==
    /\ pc = "colors"
    /\ LET c == ColorList(ppg_bounce, ppg_no_bounce)
       IN  /\ color_list' = c
           /\ failure' = IF c = <<>> THEN "UnboundLocalError(color_list)" ELSE failure
           /\ pc' = IF c = <<>> THEN "error" ELSE "title"
    /\ UNCHANGED <<report, matches, args, team, all_matches, df, all_bounce_matches,
                   all_no_bounce_matches, ppg_bounce, ppg_no_bounce, p_value,
                   console, hypothesis_title, chart>>

\* fig.suptitle(hypothesis_title, ...); the aggregate report assigns the
\* title just before
Title ==
    /\ pc = "title"
    /\ LET h == IF report = Overall THEN OverallTitle(p_value) ELSE hypothesis_title
       IN  /\ hypothesis_title' = h
           /\ failure' = IF h = "unset" THEN "UnboundLocalError(hypothesis_title)"
                         ELSE failure
           /\ pc' = IF h = "unset" THEN "error" ELSE "show"
    /\ UNCHANGED <<report, matches, args, team, all_matches, df, all_bounce_matches,
                   all_no_bounce_matches, ppg_bounce, ppg_no_bounce, p_value,
                   console, color_list, chart>>

\* the annotations and plt.show()
Show ==
    /\ pc = "show"
    /\ chart' = <<[heights |-> <<ppg_bounce, ppg_no_bounce>>,
                   colors |-> color_list,
                   title |-> hypothesis_title,
                   n_matches |-> <<Len(all_bounce_matches), Len(all_no_bounce_matches)>>]>>
    /\ pc' = "shown"
    /\ UNCHANGED <<report, matches, args, team, all_matches, df, all_bounce_matches,
                   all_no_bounce_matches, ppg_bounce, ppg_no_bounce, p_value,
                   console, hypothesis_title, color_list, failure>>

\* The report returns and the script makes its next call, or ends.
NextReport ==
    /\ pc = "shown"
    /\ report' = report + 1
    /\ all_matches' = <<>>
    /\ df' = <<>>
    /\ matches' = <<>>
    /\ all_bounce_matches' = <<>>
    /\ all_no_bounce_matches' = <<>>
    /\ ppg_bounce' = NoFloat
    /\ ppg_no_bounce' = NoFloat
    /\ p_value' = NoFloat
    /\ console' = <<>>
    /\ hypothesis_title' = "unset"
    /\ color_list' = <<>>
    /\ chart' = <<>>
    /\ IF report < Len(TEAMS)
       THEN /\ pc' = "load"
            /\ team' = report + 1
            /\ args' = TeamArgs(report + 1, args.number_of_matches_in_bounce)
       ELSE /\ pc' = "exit"
            /\ UNCHANGED <<team, args>>
    /\ UNCHANGED failure

----------------------------------------------------------------------------
(* The script: the aggregate report, then the individual reports *)

Init ==
    /\ pc = "load"
    /\ report = Overall
    /\ team = 1
    /\ \E n \in 1..MaxBounce : args = TeamArgs(1, n)
    /\ NoLocals
    /\ failure = "none"

Next ==
    \/ Load
    \/ Extract
    \/ Label
    \/ Points
    \/ Collect
    \/ Mean
    \/ Test
    \/ Colors
    \/ Title
    \/ Show
    \/ NextReport

Spec == Init /\ [][Next]_vars

----------------------------------------------------------------------------
(* The labeler on every team match list, hire dates, number of hires and   *)
(* window size within the bounds                                           *)

InitLabel ==
    /\ pc = "label"
    /\ report = 1
    /\ team = 1
    /\ \E first \in HireDates, second \in HireDates, hires \in 1..MaxHires,
          n \in 1..MaxBounce :
           args = [team_name |-> "Sunderland", first_manager_hire_date |-> first,
                   second_manager_hire_date |-> second,
                   number_hired_managers |-> hires,
                   number_of_matches_in_bounce |-> n]
    /\ \E days \in SUBSET Dates :
           df = [i \in 1..Cardinality(days) |->
                    Row(InOrder(days)[i], "Sunderland", "Opponent", 0, 0)]
    /\ all_matches = <<>>
    /\ ReportLocalsUnset
    /\ failure = "none"

SpecLabel == InitLabel /\ [][Label]_vars

----------------------------------------------------------------------------
(* The extractor and the points calculator on every season table of the    *)
(* clubs within the bounds, for every named team                           *)

Clubs == {"Sunderland", "Liverpool", "Chelsea"}
Scores == 0..MaxScore

\* season tables of n matches between two clubs, the k-th on day k
Pairings == {p \in Clubs \X Clubs : p[1] # p[2]}
RECURSIVE SeasonTables(_)
SeasonTables(n) ==
    IF n = 0 THEN {<<>>}
    ELSE {Append(t, Row(n, p[1], p[2], hs, as)) :
            t \in SeasonTables(n - 1), p \in Pairings,
            hs \in Scores, as \in Scores}

InitPoints ==
    /\ pc = "extract"
    /\ report = 1
    /\ team = 1
    /\ \E name \in Clubs :
           args = [team_name |-> name, first_manager_hire_date |-> 0,
                   second_manager_hire_date |-> 0, number_hired_managers |-> 1,
                   number_of_matches_in_bounce |-> 1]
    /\ \E n \in 0..MaxSeasonMatches : all_matches \in SeasonTables(n)
    /\ df = <<>>
    /\ ReportLocalsUnset
    /\ failure = "none"

NextPoints ==
    \/ Extract
    \/ Label
    \/ Points

SpecPoints == InitPoints /\ [][NextPoints]_vars

----------------------------------------------------------------------------
(* extract_teams_matches_during_season on every fetched season table of    *)
(* matches between the clubs, several of them possibly on one day          *)

\* what sb.matches may hand back: matches between the clubs in any order
RECURSIVE FetchedTables(_)
FetchedTables(n) ==
    IF n = 0 THEN {<<>>}
    ELSE {Append(t, Row(d, p[1], p[2], 0, 0)) :
            t \in FetchedTables(n - 1), d \in Dates, p \in Pairings}

InitExtract ==
    /\ pc = "extract"
    /\ report = 1
    /\ team = 1
    /\ \E name \in Clubs :
           args = [team_name |-> name, first_manager_hire_date |-> 0,
                   second_manager_hire_date |-> 0, number_hired_managers |-> 1,
                   number_of_matches_in_bounce |-> 1]
    /\ \E n \in 0..MaxSeasonMatches : \E t \in FetchedTables(n) :
           all_matches =
               SB_load_matches_from_season([status |-> "ok", matches |-> t]).matches_df
    /\ df = <<>>
    /\ ReportLocalsUnset
    /\ failure = "none"

SpecExtract == InitExtract /\ [][Extract]_vars

----------------------------------------------------------------------------
(* Properties of the labeler, stated on the table it returned *)

first_manager_hire_date == args.first_manager_hire_date
second_manager_hire_date == args.second_manager_hire_date
number_hired_managers == args.number_hired_managers
number_of_matches_in_bounce == args.number_of_matches_in_bounce

\* the labeler returned without raising
Labeled == pc = "points"

\* positions of the matches labeled 1, labeled 0
BounceRows == {i \in 1..Len(df) : df[i].is_manager_bounce = 1}
NonBounceRows == {i \in 1..Len(df) : df[i].is_manager_bounce = 0}

\* positions of the matches dated on or after a hire date
RowsOnOrAfter(hire) == {i \in 1..Len(df) : df[i].match_date >= hire}

\* the n earliest matches dated on or after a hire date, by position in the
\* chronologically sorted table
Window(hire, n) ==
    {i \in RowsOnOrAfter(hire) :
        Cardinality({j \in RowsOnOrAfter(hire) : j < i}) < n}

\* C1: after single-hire labeling the matches labeled 1 are exactly the N
\* earliest matches dated on or after the hire date (so there are N of them,
\* a match on the hire date being the first), and every other match is
\* labeled 0.
C1_SingleHireWindow ==
    (Labeled /\ number_hired_managers = 1) =>
        /\ BounceRows = Window(first_manager_hire_date, number_of_matches_in_bounce)
        /\ Cardinality(BounceRows) = number_of_matches_in_bounce
        /\ \A i \in BounceRows : df[i].match_date >= first_manager_hire_date
        /\ NonBounceRows = (1..Len(df)) \ BounceRows

\* C2 as stated: after two-hire labeling, for every pair of hire dates, the
\* matches labeled 1 are the union of the two windows of the N earliest
\* matches on or after each hire date, and every match has a single label.
C2_TwoHireUnionAnyDates ==
    (Labeled /\ number_hired_managers = 2) =>
        /\ BounceRows = Window(first_manager_hire_date, number_of_matches_in_bounce)
                        \cup Window(second_manager_hire_date, number_of_matches_in_bounce)
        /\ NonBounceRows = (1..Len(df)) \ BounceRows

\* C2 amended: the same, for hire dates given in chronological order (the
\* first hire date is not later than the second).
C2_TwoHireUnion ==
    (/\ Labeled
     /\ number_hired_managers = 2
     /\ first_manager_hire_date <= second_manager_hire_date) =>
        /\ BounceRows = Window(first_manager_hire_date, number_of_matches_in_bounce)
                        \cup Window(second_manager_hire_date, number_of_matches_in_bounce)
        /\ NonBounceRows = (1..Len(df)) \ BounceRows

\* two windows that share a match, which is labeled once, and a match after
\* both
C2_Witness ==
    /\ Labeled
    /\ number_hired_managers = 2
    /\ first_manager_hire_date < second_manager_hire_date
    /\ number_of_matches_in_bounce = 2
    /\ Window(first_manager_hire_date, 2) \cap Window(second_manager_hire_date, 2) # {}
    /\ Cardinality(BounceRows) = 3
    /\ NonBounceRows # {}

\* fewer than N matches are dated on or after a hire date the call uses
InsufficientMatches ==
    \/ /\ number_hired_managers \in {1, 2}
       /\ Cardinality(RowsOnOrAfter(first_manager_hire_date)) < number_of_matches_in_bounce
    \/ /\ number_hired_managers = 2
       /\ Cardinality(RowsOnOrAfter(second_manager_hire_date)) < number_of_matches_in_bounce

\* C3: when fewer than N matches remain on or after a hire date, the call has
\* ended in an out-of-range error and no match carries a label.
C3_OverrunRaises ==
    (pc # "label" /\ InsufficientMatches) =>
        /\ pc = "error"
        /\ failure = "IndexError"
        /\ \A i \in 1..Len(df) : df[i].is_manager_bounce = Missing

\* the second window overruns although the first one fits
C3_Witness ==
    /\ pc = "error"
    /\ failure = "IndexError"
    /\ number_hired_managers = 2
    /\ Cardinality(RowsOnOrAfter(first_manager_hire_date)) >= number_of_matches_in_bounce
    /\ Cardinality(RowsOnOrAfter(second_manager_hire_date)) = 1
    /\ number_of_matches_in_bounce = 2

\* date of the last match of the first window
LastOfFirstWindow ==
    LET w == Window(first_manager_hire_date, number_of_matches_in_bounce)
    IN  df[CHOOSE i \in w : \A j \in w : j <= i].match_date

\* C5 as stated: in every two-hire labeling that completes (the hire dates
\* taken in chronological order), the first window ends strictly before the
\* second hire date and exactly 2N matches are labeled 1.
C5_WindowsNeverOverlap ==
    (/\ Labeled
     /\ number_hired_managers = 2
     /\ first_manager_hire_date <= second_manager_hire_date) =>
        /\ LastOfFirstWindow < second_manager_hire_date
        /\ Cardinality(BounceRows) = 2 * number_of_matches_in_bounce

\* C5 amended: in every two-hire labeling that completes with the last match
\* of the first window dated strictly before the second hire date, the two
\* windows are disjoint and exactly 2N matches are labeled 1.
C5_SeparateWindows ==
    (/\ Labeled
     /\ number_hired_managers = 2
     /\ LastOfFirstWindow < second_manager_hire_date) =>
        /\ Window(first_manager_hire_date, number_of_matches_in_bounce)
           \cap Window(second_manager_hire_date, number_of_matches_in_bounce) = {}
        /\ Cardinality(BounceRows) = 2 * number_of_matches_in_bounce

\* two windows of two matches each, with a match between them
C5_Witness ==
    /\ Labeled
    /\ number_hired_managers = 2
    /\ number_of_matches_in_bounce = 2
    /\ LastOfFirstWindow < second_manager_hire_date
    /\ Cardinality(BounceRows) = 4
    /\ Len(df) = 5
    /\ df[3].is_manager_bounce = 0

----------------------------------------------------------------------------
(* Properties of the points calculator *)

\* the named team's score and its opponent's in a match of the team
OwnScore(r) == IF r.home_team = args.team_name THEN r.home_score ELSE r.away_score
OpponentScore(r) == IF r.home_team = args.team_name THEN r.away_score ELSE r.home_score

\* C4: once the points column is added, every row is a match of the named
\* team and its points are 3 when the team scored more than its opponent, 1
\* when the scores are equal and 0 when it scored less, home or away; so the
\* points are always 0, 1 or 3.
C4_PointsRule ==
    pc = "collect" =>
        \A i \in 1..Len(df) :
            /\ df[i].home_team = args.team_name \/ df[i].away_team = args.team_name
            /\ df[i].points_from_match \in {0, 1, 3}
            /\ df[i].points_from_match = 3 <=> OwnScore(df[i]) > OpponentScore(df[i])
            /\ df[i].points_from_match = 1 <=> OwnScore(df[i]) = OpponentScore(df[i])
            /\ df[i].points_from_match = 0 <=> OwnScore(df[i]) < OpponentScore(df[i])

\* an away win and a home defeat of the named team
C4_Witness ==
    /\ pc = "collect"
    /\ Len(df) = 2
    /\ df[1].away_team = args.team_name
    /\ df[1].points_from_match = 3
    /\ df[2].home_team = args.team_name
    /\ df[2].points_from_match = 0

----------------------------------------------------------------------------
(* Properties of the reports *)

RECURSIVE Flatten(_)
Flatten(tables) == IF tables = <<>> THEN <<>> ELSE tables[1] \o Flatten(Tail(tables))

\* the matches of the report's teams that carry a label
RowsLabeled(label) ==
    SelectSeq(Flatten(matches), LAMBDA r : r.is_manager_bounce = label)
PointsOf(rows) == [i \in 1..Len(rows) |-> rows[i].points_from_match]

\* sum of points over count of matches, for the matches carrying a label
MeanOfLabeled(label) ==
    Float(Sum(PointsOf(RowsLabeled(label))), Len(RowsLabeled(label)))

\* C6: in either report, once the means are taken the bounce PPG is the sum
\* of points divided by the number of matches over exactly the matches
\* labeled 1 of the report's teams, the non-bounce PPG the same over the
\* matches labeled 0, and the chart shows those means with those two numbers
\* of matches as sample sizes.
C6_MeansAndSizes ==
    /\ ppg_bounce # NoFloat =>
          /\ ppg_bounce = MeanOfLabeled(1)
          /\ ppg_no_bounce = MeanOfLabeled(0)
    /\ chart # <<>> =>
          /\ chart[1].heights = <<MeanOfLabeled(1), MeanOfLabeled(0)>>
          /\ chart[1].n_matches = <<Len(RowsLabeled(1)), Len(RowsLabeled(0))>>

\* the aggregate chart of two teams whose tables differ in size, both with
\* matches in and out of the window
C6_Witness ==
    /\ report = Overall
    /\ chart # <<>>
    /\ Len(matches) = NumTeams
    /\ Len(matches[1]) = 3
    /\ Len(matches[2]) = 2
    /\ chart[1].n_matches = <<2, 3>>
    /\ chart[1].heights = <<Float(4, 2), Float(1, 3)>>

\* a step of the pipeline raised: the lookup of the league and season, the
\* provider, or a bounce window overrunning the team's matches
PipelineFailed == failure \in {"IndexError(array)", "ProviderError", "IndexError"}

NothingReported ==
    /\ console = <<>>
    /\ chart = <<>>
    /\ hypothesis_title = "unset"
    /\ ppg_bounce = NoFloat
    /\ p_value = NoFloat

\* C8: when a step of the pipeline has failed for any team of a report, the
\* run is in its error state with no verdict printed and no chart shown, and
\* from the error state nothing further happens: no step is retried and no
\* report is made from the teams already done.
C8_FailureAborts ==
    /\ [](PipelineFailed => (pc = "error" /\ NothingReported))
    /\ [][pc # "error"]_vars

\* the second team of the aggregate report overran after the first was done
C8_Witness ==
    /\ pc = "error"
    /\ failure = "IndexError"
    /\ report = Overall
    /\ team = 2
    /\ Len(matches) = 1
    /\ Len(all_bounce_matches) > 0

\* the colors stage of a report has run
ColorsStagePassed ==
    \/ pc \in {"title", "show", "shown"}
    \/ pc = "error" /\ failure \in {"UnboundLocalError(color_list)",
                                    "UnboundLocalError(hypothesis_title)"}

\* C9: in every report that got past its aggregation, the bars have colors:
\* green and red when the bounce PPG is higher, red and green when the
\* non-bounce PPG is higher, yellow and yellow when they are equal.
C9_BarsAlwaysColored ==
    ColorsStagePassed =>
        /\ color_list \in {<<"green", "red">>, <<"red", "green">>, <<"yellow", "yellow">>}
        /\ Less(ppg_no_bounce, ppg_bounce) => color_list = <<"green", "red">>
        /\ Less(ppg_bounce, ppg_no_bounce) => color_list = <<"red", "green">>
        /\ Equal(ppg_bounce, ppg_no_bounce) => color_list = <<"yellow", "yellow">>

\* the title stage of a report has run
TitleStagePassed ==
    \/ pc \in {"show", "shown"}
    \/ pc = "error" /\ failure = "UnboundLocalError(hypothesis_title)"

\* C10: a report whose test completed has printed exactly one verdict,
\* "greater" if and only if the p-value is below 0.05 and "no difference"
\* otherwise, and its chart title carries that same verdict.
C10_OneVerdict ==
    /\ p_value # NoFloat =>
          console = <<IF Less(p_value, alpha) THEN "greater" ELSE "no difference">>
    /\ TitleStagePassed => hypothesis_title = console[1]

----------------------------------------------------------------------------
(* C11 *)

\* how many rows of the table t are the match r
Occurrences(t, r) == Cardinality({i \in 1..Len(t) : t[i] = r})

Involves(r, team_name) == r.home_team = team_name \/ r.away_team = team_name

NonDecreasingDates(t) ==
    \A i \in 1..Len(t) : \A j \in 1..Len(t) :
        i < j => t[i].match_date <= t[j].match_date

\* C11: the table extract_teams_matches_during_season returns holds every
\* match of the season table in which the named team is the home or the away
\* team as often as the season table does, holds no other row, and is in
\* non-decreasing match_date order.
C11_ExtractExact ==
    [][pc = "extract" =>
         /\ \A i \in 1..Len(all_matches) :
                Occurrences(df', all_matches[i]) =
                    IF Involves(all_matches[i], args.team_name)
                    THEN Occurrences(all_matches, all_matches[i]) ELSE 0
         /\ \A i \in 1..Len(df') : Occurrences(all_matches, df'[i]) > 0
         /\ NonDecreasingDates(df')]_vars

\* a season table with a match of two other clubs and an away match of the
\* named team, of which the extraction keeps the away match only
C11_Witness ==
    /\ pc = "extract"
    /\ Len(all_matches) = 2
    /\ ~Involves(all_matches[1], args.team_name)
    /\ all_matches[2].away_team = args.team_name
    /\ ENABLED (Extract /\ df' = <<all_matches[2]>>)

----------------------------------------------------------------------------
(* C12 *)

ReportOrder ==
    <<"Sunderland", "Liverpool", "Swansea City", "Aston Villa", "Chelsea",
      "Newcastle United">>

\* the stage a team's table has been through, read off the table itself
Unlabeled(t) ==
    \A i \in 1..Len(t) :
        t[i].is_manager_bounce = Missing /\ t[i].points_from_match = Missing
LabeledOnly(t) ==
    \A i \in 1..Len(t) :
        t[i].is_manager_bounce \in {0, 1} /\ t[i].points_from_match = Missing
LabeledWithPoints(t) ==
    \A i \in 1..Len(t) :
        t[i].is_manager_bounce \in {0, 1} /\ t[i].points_from_match \in {0, 1, 3}

\* the teams whose tables a report needs before its test
TeamsOfReport == IF report = Overall THEN NumTeams ELSE 1

\* which team is at work in which report
RunsInOrder ==
    /\ report \in 0..(Len(ReportOrder) + 1)
    /\ pc = "exit" <=> report = Len(ReportOrder) + 1
    /\ report = Overall /\ pc # "exit" => args.team_name = ReportOrder[team]
    /\ report \in 1..Len(ReportOrder) =>
           team = report /\ args.team_name = ReportOrder[report]

\* where a team's data stands at each step of a report
StagesInOrder ==
    /\ pc = "extract" => df = <<>>
    /\ pc = "label" => Unlabeled(df)
    /\ pc = "points" => LabeledOnly(df)
    /\ pc = "collect" => LabeledWithPoints(df)
    /\ console # <<>> =>
           /\ Len(console) = 1
           /\ Len(matches) = TeamsOfReport
           /\ \A k \in 1..Len(matches) :
                  \A i \in 1..Len(matches[k]) :
                      /\ matches[k][i].is_manager_bounce \in {0, 1}
                      /\ matches[k][i].points_from_match \in {0, 1, 3}
    /\ chart # <<>> => console # <<>>

\* a step of the script
StepsInOrder ==
    /\ report' # report =>
           report' = report + 1 /\ chart # <<>> /\ console # <<>>
    /\ pc' # pc =>
           \/ pc' = "error"
           \/ <<pc, pc'>> \in {<<"load", "extract">>, <<"extract", "label">>,
                               <<"label", "points">>, <<"points", "collect">>,
                               <<"collect", "load">>, <<"collect", "mean">>,
                               <<"mean", "test">>, <<"test", "colors">>,
                               <<"colors", "title">>, <<"title", "show">>,
                               <<"show", "shown">>, <<"shown", "load">>,
                               <<"shown", "exit">>}
    /\ console' # console /\ console' # <<>> => console = <<>> /\ chart = <<>>
    /\ chart' # chart /\ chart' # <<>> => chart = <<>> /\ console' = console

\* C12: the script runs the aggregate report once and first, then one
\* individual report per team in the order Sunderland, Liverpool, Swansea
\* City, Aston Villa, Chelsea, Newcastle United; in every report each team's
\* table is fetched, extracted, labeled and given its points, in that order,
\* before the report's one verdict is printed, and the verdict is printed
\* before the chart is rendered.
C12_ReportOrder ==
    /\ [](RunsInOrder /\ StagesInOrder)
    /\ [][StepsInOrder]_vars

\* the last individual report has rendered its chart
C12_Witness ==
    /\ report = Len(ReportOrder)
    /\ pc = "shown"
    /\ args.team_name = "Newcastle United"
    /\ chart # <<>>
    /\ console # <<>>
    /\ failure = "none"

----------------------------------------------------------------------------
(* C13 *)

\* the columns of a match that the labeling is not about
SameMatch(r, q) ==
    /\ r.match_date = q.match_date
    /\ r.home_team = q.home_team
    /\ r.away_team = q.away_team
    /\ r.home_score = q.home_score
    /\ r.away_score = q.away_score

\* C13: whenever add_managerial_change_column returns without error, whatever
\* number_hired_managers it was called with, every match of the returned
\* table carries one label, 0 or 1, the matches labeled 1 and the matches
\* labeled 0 together are all the matches of the team, and the date, teams
\* and scores of every match are as they were.
C13_LabelsPartition ==
    [][(pc = "label" /\ pc' = "points") =>
         /\ Len(df') = Len(df)
         /\ \A i \in 1..Len(df') :
                /\ df'[i].is_manager_bounce \in {0, 1}
                /\ SameMatch(df'[i], df[i])
         /\ Cardinality({i \in 1..Len(df') : df'[i].is_manager_bounce = 1})
              + Cardinality({i \in 1..Len(df') : df'[i].is_manager_bounce = 0})
              = Len(df')]_vars


====
